---- MODULE Spec2Model ----
(***************************************************************************)
(* A model of the aws-c-common event object (source/event.c and            *)
(* include/aws/common/event.h): a tri-valued state word changed by         *)
(* lock-free compare-and-swap, and a mutex-protected list of wait entries, *)
(* each with a private condition variable and an awoken flag.              *)
(*                                                                         *)
(* Each thread is a process that calls aws_event_wait, aws_event_signal,   *)
(* aws_event_reset or aws_event_is_signalled; one action is one atomic     *)
(* step of such a call (a read or CAS of the state word, a mutex           *)
(* acquisition, or a critical section up to the next point at which        *)
(* another thread can observe or interfere).                               *)
(*                                                                         *)
(* Collaborators that are not part of the event code are modelled by their *)
(* contracts: the mutex is a blocking lock whose lock() never fails, a     *)
(* condition-variable wait releases the mutex, parks until the entry is    *)
(* notified with its predicate true or the timeout elapses and re-acquires *)
(* the mutex, and notify and condition-variable initialisation may fail.   *)
(***************************************************************************)
EXTENDS Integers, Sequences, FiniteSets, TLC

\* Number of threads that use the event.
NThreads == 3

\* Number of calls the threads make on the event, all together.
MaxCalls == 4

Threads == 1..NThreads

\* Values of aws_event.state.
Unsignalled == 0
SignalledNoWaiters == 1
WaitersPresent == 2

\* Owner value of a mutex nobody holds.
Unlocked == 0

VARIABLES
    state,      \* ev->state
    autoreset,  \* ev->autoreset
    initSignalled, \* the signalled argument aws_event_init was given
    headInit,   \* ev->wait_head.next != NULL (the list head is linked to itself lazily)
    waiters,    \* the entries linked after ev->wait_head, first to last, by owning thread
    mutex,      \* owner of ev->mutex, or Unlocked
    awoken,     \* entry.awoken of each thread's stack-allocated wait entry
    notified,   \* each entry's condition variable has a notification pending
    ndebug,     \* the build defines NDEBUG: assert() compiles to nothing
    aborted,    \* the process was terminated by abort() or a crash
    pc,         \* each thread's position
    op,         \* the operation each thread is in, or has last returned from
    curval,     \* the local curval of the call in progress
    timed,      \* the wait in progress was given a finite time_to_wait
    ret,        \* the value the last call returned
    calls,      \* the number of calls started so far
    primFailed, \* history: a collaborator primitive failed during the current call
    owed,       \* history: a signal took effect while this thread's entry was queued and blocked
    signalLost, \* history: an auto-reset signal set the flag while an entry was queued and blocked
    signalsStarted, \* history: the number of aws_event_signal calls started
    waitsTrue,  \* history: the number of aws_event_wait calls that have returned true
    arrivals    \* history: the queued entries in the order in which they were linked

ev == <<state, headInit, waiters, mutex>>
entries == <<awoken, notified>>
fixed == <<autoreset, initSignalled, ndebug>>
locals == <<pc, curval, timed, ret>>
threadVars == <<pc, op, curval, timed, ret, calls, primFailed>>
history == <<owed, signalLost>>
vars == <<state, autoreset, initSignalled, headInit, waiters, mutex, awoken, notified, ndebug, aborted,
          pc, op, curval, timed, ret, calls, primFailed, owed, signalLost,
          signalsStarted, waitsTrue, arrivals>>

----------------------------------------------------------------------------
\* Pure helpers.

Range(s) == {s[i] : i \in 1..Len(s)}

Queued == Range(waiters)

RECURSIVE Remove(_, _)
Remove(s, t) ==
    IF s = <<>> THEN <<>>
    ELSE IF Head(s) = t THEN Remove(Tail(s), t)
    ELSE <<Head(s)>> \o Remove(Tail(s), t)

\* Mutant of aws_atomic_compare_exchange: success is reported and nothing is stored.
aws_atomic_compare_exchange_nostore(val, expect, newval) ==
    [success |-> TRUE, val |-> val, expect |-> expect]

\* aws_atomic_compare_exchange(pval, expect, newval): the new *pval, the new *expect
\* and whether the swap happened.
aws_atomic_compare_exchange(val, expect, newval) ==
    IF val = expect
    THEN [success |-> TRUE, val |-> newval, expect |-> expect]
    ELSE [success |-> FALSE, val |-> val, expect |-> val]

\* aws_linked_list_insert_after(&ev->wait_head, &entry->node): the entry becomes the
\* first one after the head.
start_waiting_list(ws, t) == <<t>> \o ws

\* Mutant of stop_waiting: the entry is left in the list.
stop_waiting_linked(ws, t) == ws

\* stop_waiting: unlink the entry; a no-op on an entry that was made self-linked.
stop_waiting(ws, t) == Remove(ws, t)

\* awaken_one: the entry that is woken is ev->wait_head.next.
awaken_one_entry(ws) == Head(ws)

\* awaken_all: both loops take the entry from ev->wait_head.next on every iteration,
\* so the entries that are notified and marked awoken are the first one only.
awaken_all_entries(ws) == {Head(ws)}

\* Mutant of wait_out_state: a leaving waiter never demotes the state.
wait_out_state_kept(st, init, ws) == st

\* The last statement of aws_event_wait before the unlock: with the list empty and
\* the state 2, the state becomes 0.
wait_out_state(st, init, ws) ==
    IF init /\ ws = <<>> /\ st = WaitersPresent THEN Unsignalled ELSE st

\* Mutant of signal_slow_state: the wake of an auto-reset event stores the newval of
\* the manual-reset branch.
signal_slow_state_flag(st, auto, ws) == SignalledNoWaiters

\* aws_event_signal_priv_slowpath, case 2: newval is computed and never stored, so
\* the state after a successful wake is the state before it.
signal_slow_state(st, auto, ws) == st

\* Mutants of wait_fast_consumes: the fast path takes the CAS 1 -> 0 whatever the
\* autoreset flag is, and the fast path returns true without the CAS whatever it is.
wait_fast_consumes_always(auto) == TRUE

wait_fast_consumes_never(auto) == FALSE

\* case 1 of the switch in aws_event_wait's fast path: an auto-reset event goes on
\* to the CAS 1 -> 0, a manual-reset event returns true and changes nothing.
wait_fast_consumes(auto) == auto

\* Mutant of awaken_failed_entries: the awoken flag is set before the notification.
awaken_failed_entries_marked(ws) == IF ws = <<>> THEN {} ELSE {Head(ws)}

\* awaken_one and awaken_all when a notification fails: they return before any
\* entry->awoken = true, so no entry is marked.
awaken_failed_entries(ws) == {}

\* Mutant of wait_slow_consumes: the slow path returns true without the CAS 1 -> 0.
wait_slow_consumes_never(auto) == FALSE

\* case 1 of the switch in aws_event_wait's slow path, likewise.
wait_slow_consumes(auto) == auto

\* aws_event_is_signalled.
aws_event_is_signalled(st) == IF st = SignalledNoWaiters THEN "true" ELSE "false"

----------------------------------------------------------------------------
\* Steps shared by the calls.

\* The call goes on at p.
Goto(t, p) ==
    /\ pc' = [pc EXCEPT ![t] = p]
    /\ UNCHANGED <<curval, timed, ret, waitsTrue>>

\* The call goes on at p with cv in its local curval.
GotoWith(t, p, cv) ==
    /\ pc' = [pc EXCEPT ![t] = p]
    /\ curval' = [curval EXCEPT ![t] = cv]
    /\ UNCHANGED <<timed, ret, waitsTrue>>

\* The call returns r; its locals are dead from here on.
Return(t, r) ==
    /\ pc' = [pc EXCEPT ![t] = "idle"]
    /\ ret' = [ret EXCEPT ![t] = r]
    /\ curval' = [curval EXCEPT ![t] = Unsignalled]
    /\ timed' = [timed EXCEPT ![t] = FALSE]
    /\ waitsTrue' = IF op[t] = "wait" /\ r = "true" THEN waitsTrue + 1 ELSE waitsTrue

\* Thread t calls operation o: the first statement of each operation reads ev->state
\* into curval.
Call(t, o, first, tm) ==
    /\ ~aborted
    /\ pc[t] = "idle"
    /\ calls < MaxCalls
    /\ calls' = calls + 1
    /\ op' = [op EXCEPT ![t] = o]
    /\ pc' = [pc EXCEPT ![t] = first]
    /\ curval' = [curval EXCEPT ![t] = state]
    /\ timed' = [timed EXCEPT ![t] = tm]
    /\ ret' = [ret EXCEPT ![t] = "none"]
    /\ primFailed' = [primFailed EXCEPT ![t] = FALSE]
    /\ owed' = [owed EXCEPT ![t] = FALSE]
    /\ signalsStarted' = IF o = "signal" THEN signalsStarted + 1 ELSE signalsStarted
    /\ UNCHANGED <<ev, arrivals, entries, fixed, aborted, signalLost, waitsTrue>>

\* A signal takes effect in this step: the entries that are queued and blocked, and
\* that the signal has to wake (the only one of an auto-reset event, all of a
\* manual-reset event), are recorded as owed a wake-up.
SignalEffect ==
    owed' = [u \in Threads |->
                owed[u] \/ ( /\ pc[u] = "w_blocked"
                             /\ u \in Queued
                             /\ (autoreset => waiters = <<u>>) )]

\* A signal sets the flag in this step (0 -> 1): on an auto-reset event with an
\* entry queued and blocked, the signal went to the flag and not to the waiter.
FlagSet ==
    signalLost' = (signalLost \/ (autoreset /\ \E u \in Queued : pc[u] = "w_blocked"))

----------------------------------------------------------------------------
\* aws_event_wait

WaitStart(t) == \E tm \in BOOLEAN : Call(t, "wait", "w_fast", tm)

\* The fast-path loop: one pass of the switch and, where it is reached, the CAS.
WaitFast(t) ==
    /\ ~aborted
    /\ pc[t] = "w_fast"
    /\ IF curval[t] # SignalledNoWaiters
       THEN /\ Goto(t, "w_lock")
            /\ UNCHANGED state
       ELSE IF ~wait_fast_consumes(autoreset)
       THEN /\ Return(t, "true")
            /\ UNCHANGED state
       ELSE LET r == aws_atomic_compare_exchange(state, curval[t], Unsignalled) IN
            /\ state' = r.val
            /\ IF r.success THEN Return(t, "true") ELSE GotoWith(t, "w_fast", r.expect)
    /\ UNCHANGED <<headInit, waiters, arrivals, mutex, entries, fixed, aborted,
                   op, calls, signalsStarted, primFailed, history>>

\* slowpath: aws_mutex_lock. curval keeps the value the fast path left in it.
WaitLock(t) ==
    /\ ~aborted
    /\ pc[t] = "w_lock"
    /\ mutex = Unlocked
    /\ mutex' = t
    /\ Goto(t, "w_loop")
    /\ UNCHANGED <<state, headInit, waiters, arrivals, entries, fixed, aborted,
                   op, calls, signalsStarted, primFailed, history>>

\* The slow-path loop: one pass of the switch and, where it is reached, the CAS.
WaitLoop(t) ==
    /\ ~aborted
    /\ pc[t] = "w_loop"
    /\ IF \/ curval[t] = WaitersPresent
          \/ (curval[t] = SignalledNoWaiters /\ ~wait_slow_consumes(autoreset))
       THEN /\ Goto(t, "w_done")
            /\ UNCHANGED state
       ELSE LET newval == IF curval[t] = Unsignalled THEN WaitersPresent ELSE Unsignalled
                r == aws_atomic_compare_exchange(state, curval[t], newval) IN
            /\ state' = r.val
            /\ GotoWith(t, IF r.success THEN "w_done" ELSE "w_loop", r.expect)
    /\ UNCHANGED <<headInit, waiters, arrivals, mutex, entries, fixed, aborted,
                   op, calls, signalsStarted, primFailed, history>>

\* out: demote 2 to 0 when the list is empty, unlock, return.
WaitOut(t, res, init, ws) ==
    /\ state' = wait_out_state(state, init, ws)
    /\ mutex' = Unlocked
    /\ Return(t, res)

\* done_looping with curval == 1: the signal was observed; goto out.
WaitSignalled(t) ==
    /\ ~aborted
    /\ pc[t] = "w_done"
    /\ curval[t] = SignalledNoWaiters
    /\ WaitOut(t, "true", headInit, waiters)
    /\ UNCHANGED <<headInit, waiters, arrivals, entries, fixed, aborted,
                   op, calls, signalsStarted, primFailed, history>>

\* done_looping otherwise: start_waiting, then the condition-variable wait releases
\* the mutex and parks the thread. A failing assert(ev->state == 2) aborts the
\* process unless the build defines NDEBUG; a failing condition-variable
\* initialisation leaves through out with result false.
WaitEnqueue(t) ==
    /\ ~aborted
    /\ pc[t] = "w_done"
    /\ curval[t] # SignalledNoWaiters
    /\ IF state # WaitersPresent /\ ~ndebug
       THEN /\ aborted' = TRUE
            /\ UNCHANGED <<ev, arrivals, entries, locals, primFailed, waitsTrue>>
       ELSE /\ headInit' = TRUE
            /\ UNCHANGED aborted
            /\ \E initFails \in BOOLEAN :
                 IF initFails
                 THEN /\ WaitOut(t, "false", TRUE, waiters)
                      /\ primFailed' = [primFailed EXCEPT ![t] = TRUE]
                      /\ UNCHANGED <<waiters, arrivals, entries>>
                 ELSE /\ awoken' = [awoken EXCEPT ![t] = FALSE]
                      /\ notified' = [notified EXCEPT ![t] = FALSE]
                      /\ waiters' = start_waiting_list(waiters, t)
                      /\ arrivals' = Append(arrivals, t)
                      /\ mutex' = Unlocked
                      /\ Goto(t, "w_blocked")
                      /\ UNCHANGED <<state, primFailed>>
    /\ UNCHANGED <<fixed, op, calls, signalsStarted, history>>

\* The timeout of a timed wait elapses; the thread now needs the mutex back.
WaitTimeout(t) ==
    /\ ~aborted
    /\ pc[t] = "w_blocked"
    /\ timed[t]
    /\ Goto(t, "w_reacq")
    /\ UNCHANGED <<ev, arrivals, entries, fixed, aborted, op, calls, signalsStarted, primFailed, history>>

\* wake_predicate: the notified thread leaves the wait when entry->awoken is set.
wake_predicate(t) == awoken[t]

WaitNotified(t) ==
    /\ ~aborted
    /\ pc[t] = "w_blocked"
    /\ notified[t]
    /\ wake_predicate(t)
    /\ Goto(t, "w_reacq")
    /\ UNCHANGED <<ev, arrivals, entries, fixed, aborted, op, calls, signalsStarted, primFailed, history>>

\* result = entry.awoken, read with the mutex held.
wait_result(aw) == IF aw THEN "true" ELSE "false"

\* The condition-variable wait re-acquires the mutex and returns; then
\* result = entry.awoken, stop_waiting, out.
WaitReacquire(t) ==
    /\ ~aborted
    /\ pc[t] = "w_reacq"
    /\ mutex = Unlocked
    /\ waiters' = stop_waiting(waiters, t)
    /\ arrivals' = Remove(arrivals, t)
    /\ WaitOut(t, wait_result(awoken[t]), headInit, waiters')
    /\ UNCHANGED <<headInit, entries, fixed, aborted, op, calls, signalsStarted, primFailed, history>>

----------------------------------------------------------------------------
\* aws_event_signal and aws_event_signal_priv_slowpath

SignalStart(t) == Call(t, "signal", "s_fast", FALSE)

\* The inline loop: one pass of the switch and, where it is reached, the CAS.
SignalFast(t) ==
    /\ ~aborted
    /\ pc[t] = "s_fast"
    /\ IF curval[t] = WaitersPresent
       THEN /\ Goto(t, "s_lock")
            /\ UNCHANGED <<state, history>>
       ELSE IF curval[t] = SignalledNoWaiters
       THEN /\ Return(t, "AWS_OP_SUCCESS")
            /\ UNCHANGED <<state, history>>
       ELSE LET r == aws_atomic_compare_exchange(state, curval[t], SignalledNoWaiters) IN
            /\ state' = r.val
            /\ IF r.success
               THEN /\ Return(t, "AWS_OP_SUCCESS")
                    /\ SignalEffect
                    /\ FlagSet
               ELSE /\ GotoWith(t, "s_fast", r.expect)
                    /\ UNCHANGED history
    /\ UNCHANGED <<headInit, waiters, arrivals, mutex, entries, fixed, aborted,
                   op, calls, signalsStarted, primFailed>>

\* aws_mutex_lock, then curval = ev->state.
SignalLock(t) ==
    /\ ~aborted
    /\ pc[t] = "s_lock"
    /\ mutex = Unlocked
    /\ mutex' = t
    /\ GotoWith(t, "s_loop", state)
    /\ UNCHANGED <<state, headInit, waiters, arrivals, entries, fixed, aborted,
                   op, calls, signalsStarted, primFailed, history>>

\* case 0 of the slow-path switch, and the CAS after it.
SignalSlowSet(t) ==
    /\ ~aborted
    /\ pc[t] = "s_loop"
    /\ curval[t] = Unsignalled
    /\ LET r == aws_atomic_compare_exchange(state, curval[t], SignalledNoWaiters) IN
         /\ state' = r.val
         /\ IF r.success
            THEN /\ mutex' = Unlocked
                 /\ Return(t, "AWS_OP_SUCCESS")
                 /\ SignalEffect
                 /\ FlagSet
            ELSE /\ GotoWith(t, "s_loop", r.expect)
                 /\ UNCHANGED <<mutex, history>>
    /\ UNCHANGED <<headInit, waiters, arrivals, entries, fixed, aborted, op, calls, signalsStarted, primFailed>>

\* case 1 of the slow-path switch is "return true": the value returned, and the
\* owner of the mutex after it (there is no unlock on this path).
signal_slow_case1_ret == "true"

signal_slow_case1_mutex(t) == t

SignalSlowAlready(t) ==
    /\ ~aborted
    /\ pc[t] = "s_loop"
    /\ curval[t] = SignalledNoWaiters
    /\ mutex' = signal_slow_case1_mutex(t)
    /\ Return(t, signal_slow_case1_ret)
    /\ UNCHANGED <<state, headInit, waiters, arrivals, entries, fixed, aborted,
                   op, calls, signalsStarted, primFailed, history>>

\* case 2 of the slow-path switch: awaken_one or awaken_all, then out.
\* awaken_one on an empty list fails its assert; with NDEBUG it treats the list
\* head as an entry, which is undefined behaviour: the notify on memory that is
\* no condition variable may crash the process, report failure, or report success,
\* and the unlink of the head leaves the list empty.
SignalSlowWake(t) ==
    /\ ~aborted
    /\ pc[t] = "s_loop"
    /\ curval[t] = WaitersPresent
    /\ \E outcome \in {"ok", "notify_fails", "crash"} :
         IF autoreset /\ waiters = <<>> /\ (~ndebug \/ outcome = "crash")
         THEN /\ aborted' = TRUE
              /\ UNCHANGED <<ev, arrivals, entries, locals, primFailed, history, waitsTrue>>
         ELSE IF outcome = "crash"
         THEN FALSE
         ELSE IF outcome = "notify_fails" /\ (autoreset \/ waiters # <<>>)
         THEN /\ mutex' = Unlocked
              /\ Return(t, "AWS_OP_ERR")
              /\ primFailed' = [primFailed EXCEPT ![t] = TRUE]
              /\ \E reached \in BOOLEAN :
                   notified' = IF ~autoreset /\ reached /\ Len(waiters) > 1
                               THEN [notified EXCEPT ![Head(waiters)] = TRUE]
                               ELSE notified
              /\ awoken' = [u \in Threads |-> awoken[u] \/ u \in awaken_failed_entries(waiters)]
              /\ UNCHANGED <<state, headInit, waiters, arrivals, aborted, history>>
         ELSE LET woken == IF waiters = <<>> THEN {}
                           ELSE IF autoreset THEN {awaken_one_entry(waiters)}
                           ELSE awaken_all_entries(waiters)
                  rest == IF waiters = <<>> \/ ~autoreset THEN <<>> ELSE Tail(waiters) IN
              /\ awoken' = [u \in Threads |-> awoken[u] \/ u \in woken]
              /\ notified' = [u \in Threads |-> notified[u] \/ u \in woken]
              /\ waiters' = rest
              /\ arrivals' = SelectSeq(arrivals, LAMBDA u : u \in Range(rest))
              /\ state' = signal_slow_state(state, autoreset, rest)
              /\ mutex' = Unlocked
              /\ Return(t, "AWS_OP_SUCCESS")
              /\ SignalEffect
              /\ UNCHANGED <<headInit, aborted, primFailed, signalLost>>
    /\ UNCHANGED <<fixed, op, calls, signalsStarted>>

----------------------------------------------------------------------------
\* aws_event_reset and aws_event_is_signalled

ResetStart(t) == Call(t, "reset", "r_loop", FALSE)

\* Mutant of reset_returns: only Unsignalled counts as already unsignalled.
reset_returns_on_zero(cv) == cv = Unsignalled

\* Mutant of reset_returns: the early return is missing.
reset_returns_never(cv) == FALSE

\* if (curval != 1) return; (already unsignalled)
reset_returns(cv) == cv # SignalledNoWaiters

ResetLoop(t) ==
    /\ ~aborted
    /\ pc[t] = "r_loop"
    /\ IF reset_returns(curval[t])
       THEN /\ Return(t, "void")
            /\ UNCHANGED state
       ELSE LET r == aws_atomic_compare_exchange(state, curval[t], Unsignalled) IN
            /\ state' = r.val
            /\ IF r.success THEN Return(t, "void") ELSE GotoWith(t, "r_loop", r.expect)
    /\ UNCHANGED <<headInit, waiters, arrivals, mutex, entries, fixed, aborted,
                   op, calls, signalsStarted, primFailed, history>>

\* aws_event_is_signalled is one read of ev->state.
IsSignalled(t) ==
    /\ ~aborted
    /\ pc[t] = "idle"
    /\ calls < MaxCalls
    /\ calls' = calls + 1
    /\ op' = [op EXCEPT ![t] = "is_signalled"]
    /\ ret' = [ret EXCEPT ![t] = aws_event_is_signalled(state)]
    /\ UNCHANGED <<ev, arrivals, entries, fixed, aborted, pc, curval, timed, primFailed, history,
                   signalsStarted, waitsTrue>>

----------------------------------------------------------------------------
\* aws_event_init(ev, autoreset, signalled), for every autoreset and signalled, in
\* either build.

\* Mutant of init_state: the signalled argument is ignored.
init_state_unsignalled(signalled) == Unsignalled

\* ev->state = !!signalled.
init_state(signalled) == IF signalled THEN SignalledNoWaiters ELSE Unsignalled

aws_event_init(auto, signalled) ==
    /\ state = init_state(signalled)
    /\ autoreset = auto
    /\ initSignalled = signalled
    /\ headInit = FALSE
    /\ waiters = <<>>
    /\ mutex = Unlocked

ThreadsInit ==
    /\ awoken = [t \in Threads |-> FALSE]
    /\ notified = [t \in Threads |-> FALSE]
    /\ aborted = FALSE
    /\ pc = [t \in Threads |-> "idle"]
    /\ op = [t \in Threads |-> "none"]
    /\ curval = [t \in Threads |-> Unsignalled]
    /\ timed = [t \in Threads |-> FALSE]
    /\ ret = [t \in Threads |-> "none"]
    /\ calls = 0
    /\ primFailed = [t \in Threads |-> FALSE]
    /\ owed = [t \in Threads |-> FALSE]
    /\ signalLost = FALSE
    /\ signalsStarted = 0
    /\ waitsTrue = 0
    /\ arrivals = <<>>

Init ==
    /\ \E auto \in BOOLEAN, signalled \in BOOLEAN : aws_event_init(auto, signalled)
    /\ ndebug \in BOOLEAN
    /\ ThreadsInit

Next ==
    \E t \in Threads :
        \/ WaitStart(t)
        \/ WaitFast(t)
        \/ WaitLock(t)
        \/ WaitLoop(t)
        \/ WaitSignalled(t)
        \/ WaitEnqueue(t)
        \/ WaitTimeout(t)
        \/ WaitNotified(t)
        \/ WaitReacquire(t)
        \/ SignalStart(t)
        \/ SignalFast(t)
        \/ SignalLock(t)
        \/ SignalSlowSet(t)
        \/ SignalSlowAlready(t)
        \/ SignalSlowWake(t)
        \/ ResetStart(t)
        \/ ResetLoop(t)
        \/ IsSignalled(t)

Spec == Init /\ [][Next]_vars

\* The behaviours of Spec in which no collaborator primitive fails.
NoFault == \A t \in Threads : primFailed'[t] => primFailed[t]

NextNoFaults ==
    \E t \in Threads :
        \/ WaitStart(t)
        \/ WaitFast(t)
        \/ WaitLock(t)
        \/ WaitLoop(t)
        \/ WaitSignalled(t)
        \/ WaitEnqueue(t) /\ NoFault
        \/ WaitTimeout(t)
        \/ WaitNotified(t)
        \/ WaitReacquire(t)
        \/ SignalStart(t)
        \/ SignalFast(t)
        \/ SignalLock(t)
        \/ SignalSlowSet(t)
        \/ SignalSlowAlready(t)
        \/ SignalSlowWake(t) /\ NoFault
        \/ ResetStart(t)
        \/ ResetLoop(t)
        \/ IsSignalled(t)

SpecNoFaults == Init /\ [][NextNoFaults]_vars

----------------------------------------------------------------------------
\* The hand-off scenario: an auto-reset event initialised unsignalled; one thread
\* (A) calls aws_event_wait without timeout, once; another thread (B) calls
\* aws_event_signal once, after A has blocked; the other threads call
\* aws_event_is_signalled.

InitHandoff ==
    /\ aws_event_init(TRUE, FALSE)
    /\ ndebug \in BOOLEAN
    /\ ThreadsInit

HandoffWait(t) ==
    /\ \A u \in Threads : op[u] = "none"
    /\ Call(t, "wait", "w_fast", FALSE)

HandoffSignal(t) ==
    /\ op[t] = "none"
    /\ \A u \in Threads : op[u] # "signal"
    /\ \E a \in Threads : op[a] = "wait" /\ pc[a] = "w_blocked"
    /\ Call(t, "signal", "s_fast", FALSE)

HandoffObserve(t) ==
    /\ op[t] \in {"none", "is_signalled"}
    /\ \E a \in Threads : op[a] = "wait"
    /\ IsSignalled(t)

HandoffThread(t) ==
    \/ HandoffWait(t)
    \/ HandoffSignal(t)
    \/ HandoffObserve(t)
    \/ WaitFast(t)
    \/ WaitLock(t)
    \/ WaitLoop(t)
    \/ WaitEnqueue(t)
    \/ WaitNotified(t)
    \/ WaitReacquire(t)
    \/ SignalFast(t)
    \/ SignalLock(t)
    \/ SignalSlowWake(t)

NextHandoff == \E t \in Threads : HandoffThread(t)

\* Every thread that can take a step eventually takes one (preemptive OS threads).
SpecHandoff ==
    /\ InitHandoff
    /\ [][NextHandoff]_vars
    /\ \A t \in Threads : WF_vars(HandoffThread(t))

\* The steps of the calls that NextHandoff leaves out are never enabled in the
\* scenario.
HandoffClosed ==
    \A t \in Threads :
        ~ENABLED (WaitSignalled(t) \/ WaitTimeout(t) \/ SignalSlowSet(t)
                    \/ SignalSlowAlready(t) \/ ResetLoop(t))

----------------------------------------------------------------------------
\* The flag scenario: an auto-reset event with no thread waiting; the threads call
\* aws_event_signal n >= 1 times; when every signal call has returned, the threads
\* call aws_event_wait, each of them at most once.

InitFlag ==
    /\ \E signalled \in BOOLEAN : aws_event_init(TRUE, signalled)
    /\ ndebug \in BOOLEAN
    /\ ThreadsInit

SignalsDone ==
    /\ \E u \in Threads : op[u] \in {"signal", "wait"}
    /\ \A u \in Threads : op[u] = "signal" => pc[u] = "idle"

WaitStarted == \E u \in Threads : op[u] = "wait"

FlagSignal(t) == ~WaitStarted /\ Call(t, "signal", "s_fast", FALSE)

FlagWait(t) ==
    /\ SignalsDone
    /\ op[t] # "wait"
    /\ \E tm \in BOOLEAN : Call(t, "wait", "w_fast", tm)

NextFlag ==
    \E t \in Threads :
        \/ FlagSignal(t)
        \/ FlagWait(t)
        \/ SignalFast(t)
        \/ WaitFast(t)
        \/ WaitLock(t)
        \/ WaitLoop(t)
        \/ WaitEnqueue(t)
        \/ WaitTimeout(t)
        \/ WaitReacquire(t)

SpecFlag == InitFlag /\ [][NextFlag]_vars

\* The steps of the calls that NextFlag leaves out are never enabled in the
\* scenario.
FlagClosed ==
    \A t \in Threads :
        ~ENABLED (WaitSignalled(t) \/ WaitNotified(t) \/ SignalLock(t) \/ SignalSlowSet(t)
                    \/ SignalSlowAlready(t) \/ SignalSlowWake(t) \/ ResetLoop(t))

----------------------------------------------------------------------------
\* Properties.

Returned(t, o) == op[t] = o /\ pc[t] = "idle" /\ ret[t] # "none"

\* The entries that are queued with their thread parked in the condition-variable
\* wait, its timeout not elapsed.
Blocked == {u \in Queued : pc[u] = "w_blocked"}

\* The step is one in which a signal call of s takes effect and returns success:
\* its CAS 0 -> 1 succeeds, or its slow path wakes and leaves through out.
SignalTakesEffect(s) ==
    /\ op[s] = "signal"
    /\ pc[s] \in {"s_fast", "s_loop"}
    /\ curval[s] # SignalledNoWaiters
    /\ pc'[s] = "idle"
    /\ ret'[s] = "AWS_OP_SUCCESS"

\* The step is one in which the slow path of a signal call of s, having found
\* WaitersPresent, returns success.
SignalWakes(s) ==
    /\ SignalTakesEffect(s)
    /\ pc[s] = "s_loop"
    /\ curval[s] = WaitersPresent

\* C1. No lost wakeup: a wait whose entry was queued and blocked, its timeout not
\* elapsed, when a signal took effect that had to wake it (it was the only entry of
\* an auto-reset event, or any entry of a manual-reset event) does not return false.
C1_NoLostWakeup ==
    \A t \in Threads : (Returned(t, "wait") /\ ret[t] = "false") => ~owed[t]

\* C2. On an auto-reset event with N >= 1 threads blocked in a wait without timeout,
\* a signal call that takes effect wakes exactly one of them and leaves the other
\* N-1 queued and blocked.
C2_SignalWakesExactlyOne ==
    [][\A s \in Threads :
          ( /\ autoreset
            /\ SignalTakesEffect(s)
            /\ Blocked # {}
            /\ Blocked = Queued
            /\ \A u \in Blocked : ~timed[u] )
          => /\ Cardinality({u \in Blocked : awoken'[u]}) = 1
             /\ \A u \in Blocked : ~awoken'[u] => (u \in Queued' /\ pc'[u] = "w_blocked")
      ]_vars

\* C3. On a manual-reset event with N >= 1 entries queued, a signal call whose slow
\* path returns success has notified every queued entry, set its awoken flag and
\* unlinked it.
C3_ManualSignalReleasesAll ==
    [][\A s \in Threads :
          (~autoreset /\ SignalWakes(s) /\ waiters # <<>>)
          => /\ waiters' = <<>>
             /\ \A u \in Queued : awoken'[u] /\ notified'[u]
      ]_vars

\* C4. On a manual-reset event, a signal call that wakes queued waiters leaves the
\* state SignalledNoWaiters.
C4_ManualSignalLeavesSignalled ==
    [][\A s \in Threads :
          (~autoreset /\ SignalWakes(s) /\ waiters # <<>>) => state' = SignalledNoWaiters
      ]_vars

\* C5. On a manual-reset event, a wait call made while the state is
\* SignalledNoWaiters has read that state; a wait call that has read it returns
\* true, in the fast path at its next step and in the slow path without linking an
\* entry, and leaves the state and the waiter list as they are; and the state
\* leaves SignalledNoWaiters only in the step in which a reset call returns.
C5_ManualSignalledWaitReturns ==
    [][/\ \A t \in Threads :
            (~autoreset /\ state = SignalledNoWaiters /\ pc[t] = "idle" /\ pc'[t] = "w_fast")
            => curval'[t] = SignalledNoWaiters
       /\ \A t \in Threads :
            ( /\ ~autoreset
              /\ op[t] = "wait"
              /\ curval[t] = SignalledNoWaiters
              /\ pc[t] \in {"w_fast", "w_loop", "w_done"}
              /\ pc'[t] # pc[t] )
            => /\ pc[t] = "w_fast" => pc'[t] = "idle"
               /\ pc'[t] \in {"idle", "w_done"}
               /\ pc'[t] = "idle" => ret'[t] = "true"
               /\ state' = state
               /\ waiters' = waiters
       /\ (~autoreset /\ state = SignalledNoWaiters /\ state' # SignalledNoWaiters)
            => \E t \in Threads : op[t] = "reset" /\ pc[t] = "r_loop" /\ pc'[t] = "idle"
      ]_vars

\* C5 witness: two threads have returned true from a wait on a manual-reset event
\* that is still signalled, neither having been woken from the queue.
C5_Witness ==
    \E t, u \in Threads :
        /\ t # u
        /\ ~autoreset
        /\ state = SignalledNoWaiters
        /\ Returned(t, "wait") /\ ret[t] = "true" /\ ~awoken[t]
        /\ Returned(u, "wait") /\ ret[u] = "true" /\ ~awoken[u]

\* C6. On an auto-reset event in state WaitersPresent, a signal call that returns
\* success has woken exactly the head entry, and leaves the state WaitersPresent if
\* the queue is still non-empty and Unsignalled if it became empty.
C6_AutoSignalWakesHeadAndSetsState ==
    [][\A s \in Threads :
          (autoreset /\ SignalWakes(s) /\ waiters # <<>>)
          => /\ awoken'[Head(waiters)]
             /\ waiters' = Tail(waiters)
             /\ \A u \in Threads : (awoken'[u] /\ ~awoken[u]) => u = Head(waiters)
             /\ state' = (IF waiters' # <<>> THEN WaitersPresent ELSE Unsignalled)
      ]_vars

\* C10. A signal call that finds SignalledNoWaiters, on the fast path or in the slow
\* path, changes nothing and returns AWS_OP_SUCCESS; and a signal call returns
\* another value only when a mutex or condition-variable primitive failed.
C10_SignalIdempotent ==
    [][\A s \in Threads :
          /\ ( /\ op[s] = "signal"
               /\ pc[s] \in {"s_fast", "s_loop"}
               /\ curval[s] = SignalledNoWaiters
               /\ pc'[s] # pc[s] )
             => /\ pc'[s] = "idle"
                /\ ret'[s] = "AWS_OP_SUCCESS"
                /\ state' = state
                /\ waiters' = waiters
                /\ awoken' = awoken
                /\ mutex' # s
          /\ ( /\ op[s] = "signal"
               /\ pc[s] # "idle"
               /\ pc'[s] = "idle"
               /\ ret'[s] # "AWS_OP_SUCCESS" )
             => primFailed'[s]
      ]_vars

\* C7. Auto-reset hand-off: thread A has blocked in a wait without timeout and
\* thread B then signals once. When the signal has returned success the wait
\* eventually returns true; and once the wait has returned true the state is not
\* SignalledNoWaiters, so that every aws_event_is_signalled call from then on
\* returns false.
WaitReturnedTrue == \E a \in Threads : Returned(a, "wait") /\ ret[a] = "true"

C7_Handoff ==
    /\ (\E b \in Threads : Returned(b, "signal") /\ ret[b] = "AWS_OP_SUCCESS")
          ~> WaitReturnedTrue
    /\ [](WaitReturnedTrue => aws_event_is_signalled(state) = "false")
    /\ [][\A t \in Threads :
             (WaitReturnedTrue /\ ret'[t] # ret[t] /\ op'[t] = "is_signalled")
             => ret'[t] = "false"
         ]_vars

\* C7 witness: the wait of A was woken from the queue and has returned true, the
\* signal of B has returned success, and a later aws_event_is_signalled has
\* returned false.
C7_Witness ==
    /\ \E a \in Threads : Returned(a, "wait") /\ ret[a] = "true" /\ awoken[a]
    /\ \E b \in Threads : Returned(b, "signal") /\ ret[b] = "AWS_OP_SUCCESS"
    /\ state = Unsignalled
    /\ \E t \in Threads : Returned(t, "is_signalled") /\ ret[t] = "false"

\* C8. On an auto-reset event, no signal is lost to waiters that are blocked: a
\* signal call never sets the flag (0 -> 1) while an entry is queued and blocked, so
\* every signal issued while k threads are blocked wakes one of them.
C8_NoSignalLostWhileWaiting == ~signalLost

TrueWaits == {t \in Threads : Returned(t, "wait") /\ ret[t] = "true"}

\* C9. The flag is not a counter: after n >= 1 signal calls on an auto-reset event
\* with no thread waiting the state is SignalledNoWaiters; of the waits that follow,
\* at most one returns true, the first wait to return is that one, and it returns
\* from the fast path.
C9_FlagNotCounter ==
    /\ []((SignalsDone /\ ~WaitStarted) => state = SignalledNoWaiters)
    /\ [](Cardinality(TrueWaits) <= 1)
    /\ []((\E t \in Threads : Returned(t, "wait")) => Cardinality(TrueWaits) = 1)
    /\ [][\A t \in Threads :
             (op[t] = "wait" /\ pc[t] # "idle" /\ pc'[t] = "idle" /\ ret'[t] = "true")
             => pc[t] = "w_fast"
         ]_vars

\* C9 witness: two signal calls were made (four calls, two of them the waits), one
\* wait has returned true and another wait has returned false.
C9_Witness ==
    /\ calls = 4
    /\ \E s, t, u \in Threads :
         /\ Returned(s, "signal")
         /\ Returned(t, "wait") /\ ret[t] = "true"
         /\ Returned(u, "wait") /\ ret[u] = "false"

----------------------------------------------------------------------------
\* Fair scheduling: every call that can take its next step eventually takes it
\* (preemptive OS threads; a timed wait's timeout eventually elapses). Starting
\* a call is not forced.

Progress(t) ==
    \/ WaitFast(t)
    \/ WaitLock(t)
    \/ WaitLoop(t)
    \/ WaitSignalled(t)
    \/ WaitEnqueue(t) /\ NoFault
    \/ WaitTimeout(t)
    \/ WaitNotified(t)
    \/ WaitReacquire(t)
    \/ SignalFast(t)
    \/ SignalLock(t)
    \/ SignalSlowSet(t)
    \/ SignalSlowAlready(t)
    \/ SignalSlowWake(t) /\ NoFault
    \/ ResetLoop(t)

\* The fair behaviours are taken over a manual-reset event initialised
\* unsignalled, in a build with assertions compiled in.
InitFair ==
    /\ aws_event_init(FALSE, FALSE)
    /\ ndebug = FALSE
    /\ ThreadsInit

SpecFair ==
    /\ InitFair
    /\ [][NextNoFaults]_vars
    /\ \A t \in Threads : WF_vars(Progress(t))

\* The step is an aws_event_is_signalled call: a call is counted and no thread
\* changes its position.
IsSignalledStep == calls' # calls /\ pc' = pc

\* The step is an aws_event_is_signalled call that returns v: the record of one
\* thread shows an aws_event_is_signalled that returned v and no other thread's
\* record changes.
IsSignalledReturns(v) ==
    \E t \in Threads :
        /\ op'[t] = "is_signalled"
        /\ ret'[t] = v
        /\ \A u \in Threads \ {t} : op'[u] = op[u] /\ ret'[u] = ret[u]

\* C11. Under fair scheduling every aws_event_signal call eventually returns (or
\* the process has been terminated); and no step of aws_event_reset or
\* aws_event_is_signalled changes the owner of the mutex.
C11_SignalReturns ==
    /\ \A t \in Threads :
          (op[t] = "signal" /\ pc[t] # "idle") ~> (pc[t] = "idle" \/ aborted)
    /\ [][\A t \in Threads :
             ( \/ (pc[t] = "r_loop" /\ pc'[t] # pc[t])
               \/ (pc[t] = "r_loop" /\ curval'[t] # curval[t])
               \/ IsSignalledStep )
             => mutex' = mutex
         ]_vars

\* C12. A signal call whose slow path, having found WaitersPresent, ends on a
\* failed condition-variable notification returns AWS_OP_ERR with the state word
\* unchanged, no awoken flag set, no entry unlinked and the mutex released.
C12_NotifyFailureLeavesEventIntact ==
    [][\A s \in Threads :
          ( /\ op[s] = "signal"
            /\ pc[s] = "s_loop"
            /\ curval[s] = WaitersPresent
            /\ pc'[s] = "idle"
            /\ primFailed'[s] )
          => /\ ret'[s] = "AWS_OP_ERR"
             /\ state' = state
             /\ awoken' = awoken
             /\ waiters' = waiters
             /\ mutex' = Unlocked
      ]_vars

\* C12 witness: a signal call has returned AWS_OP_ERR after a failed notification
\* on a manual-reset event; two entries are still queued, neither is awoken, the
\* state is WaitersPresent and the mutex is free.
C12_Witness ==
    \E s \in Threads :
        /\ Returned(s, "signal") /\ ret[s] = "AWS_OP_ERR" /\ primFailed[s]
        /\ ~autoreset
        /\ Len(waiters) = 2
        /\ \A u \in Queued : ~awoken[u]
        /\ state = WaitersPresent
        /\ mutex = Unlocked

\* C13. For every autoreset and signalled, immediately after aws_event_init (no
\* other call made yet) the state is 1 if signalled and 0 otherwise, never
\* WaitersPresent, and an aws_event_is_signalled call made then returns the
\* signalled argument.
C13_InitSetsFlag ==
    /\ [](calls = 0 =>
            /\ state = (IF initSignalled THEN SignalledNoWaiters ELSE Unsignalled)
            /\ aws_event_is_signalled(state) = (IF initSignalled THEN "true" ELSE "false"))
    /\ [][\A t \in Threads :
             (calls = 0 /\ calls' = 1 /\ op'[t] = "is_signalled")
             => ret'[t] = (IF initSignalled THEN "true" ELSE "false")
         ]_vars

\* C13 witness: the first call on an auto-reset event initialised signalled was
\* aws_event_is_signalled, and it returned true.
C13_Witness ==
    /\ calls = 1
    /\ autoreset
    /\ initSignalled
    /\ \E t \in Threads : Returned(t, "is_signalled") /\ ret[t] = "true"

----------------------------------------------------------------------------
\* The single-thread scenario: no thread ever waits; aws_event_signal,
\* aws_event_reset and aws_event_is_signalled are called one after the other, each
\* call starting when the one before has returned, on an event of either kind.

NoCallInProgress == \A u \in Threads : pc[u] = "idle"

InitSeq ==
    /\ \E auto \in BOOLEAN, signalled \in BOOLEAN : aws_event_init(auto, signalled)
    /\ ndebug \in BOOLEAN
    /\ ThreadsInit

SeqSignal(t) == NoCallInProgress /\ Call(t, "signal", "s_fast", FALSE)

SeqReset(t) == NoCallInProgress /\ Call(t, "reset", "r_loop", FALSE)

SeqObserve(t) == NoCallInProgress /\ IsSignalled(t)

NextSeq ==
    \E t \in Threads :
        \/ SeqSignal(t)
        \/ SeqReset(t)
        \/ SeqObserve(t)
        \/ SignalFast(t)
        \/ ResetLoop(t)

SpecSeq == InitSeq /\ [][NextSeq]_vars

\* The steps of the calls that NextSeq leaves out are never enabled in the scenario.
SeqClosed == \A t \in Threads : ~ENABLED (SignalLock(t) \/ SignalSlowSet(t)
                                             \/ SignalSlowAlready(t) \/ SignalSlowWake(t))

\* C14. With no thread waiting, on an event of either kind: when aws_event_signal
\* returns the state is SignalledNoWaiters and it returns success; when
\* aws_event_reset returns the state is Unsignalled (so signal followed by reset
\* from Unsignalled ends in Unsignalled); the state changes in no other step; and
\* aws_event_is_signalled returns true exactly when the state is SignalledNoWaiters,
\* hence true after a signal and false after a following reset.
C14_SignalThenReset ==
    /\ [](state # WaitersPresent)
    /\ [][\A t \in Threads :
             /\ (op[t] = "signal" /\ pc[t] = "s_fast" /\ pc'[t] = "idle")
                  => (state' = SignalledNoWaiters /\ ret'[t] = "AWS_OP_SUCCESS")
             /\ (op[t] = "reset" /\ pc[t] = "r_loop" /\ pc'[t] = "idle")
                  => state' = Unsignalled
         ]_vars
    /\ [][IsSignalledStep =>
             IsSignalledReturns(IF state = SignalledNoWaiters THEN "true" ELSE "false")
         ]_vars
    /\ [][state' # state =>
             \E t \in Threads : pc[t] \in {"s_fast", "r_loop"} /\ pc'[t] = "idle"
         ]_vars

\* C14 witness: on an event initialised unsignalled, a signal and then a reset have
\* returned, an aws_event_is_signalled call made after the reset has returned
\* false, and the state is Unsignalled again.
C14_Witness ==
    /\ ~initSignalled
    /\ state = Unsignalled
    /\ calls = 3
    /\ \E s, r, o \in Threads :
         /\ Returned(s, "signal")
         /\ Returned(r, "reset")
         /\ Returned(o, "is_signalled") /\ ret[o] = "false"

\* C15. A step of aws_event_reset changes the state only from SignalledNoWaiters to
\* Unsignalled; when the call has read Unsignalled or WaitersPresent it returns in
\* that step without changing the state; and no step of it changes the waiter
\* list or an awoken flag.
C15_ResetOnlyClearsFlag ==
    [][\A t \in Threads :
          (pc[t] = "r_loop" /\ (pc'[t] # pc[t] \/ curval'[t] # curval[t]))
          => /\ state' = state \/ (state = SignalledNoWaiters /\ state' = Unsignalled)
             /\ curval[t] \in {Unsignalled, WaitersPresent}
                  => (state' = state /\ pc'[t] = "idle" /\ ret'[t] = "void")
             /\ waiters' = waiters
             /\ awoken' = awoken
             /\ headInit' = headInit
      ]_vars

\* C15 witness: an aws_event_reset call has returned while an entry is queued and
\* the state is WaitersPresent.
C15_Witness ==
    /\ state = WaitersPresent
    /\ waiters # <<>>
    /\ \E t \in Threads : Returned(t, "reset")

\* C16. Whenever no thread is inside a call (every started aws_event_wait,
\* aws_event_signal and aws_event_reset has returned), the state is not
\* WaitersPresent: the assertion of aws_event_clean_up would hold.
C16_QuiescentNotWaitersPresent ==
    NoCallInProgress => state # WaitersPresent

\* C16 witness: no call is in progress, a wait that was woken from the queue by a
\* signal has returned true, and the state is Unsignalled.
C16_Witness ==
    /\ NoCallInProgress
    /\ state = Unsignalled
    /\ \E t \in Threads : Returned(t, "wait") /\ ret[t] = "true" /\ awoken[t]
    /\ \E s \in Threads : Returned(s, "signal") /\ ret[s] = "AWS_OP_SUCCESS"

\* C17. In every reachable state in which the mutex is not held, the state is
\* WaitersPresent if and only if the waiter list is non-empty.
C17_StateMatchesList ==
    mutex = Unlocked => (state = WaitersPresent <=> waiters # <<>>)

\* C18. A wait call that is about to link its entry (it holds the mutex and has
\* left the slow-path loop with curval other than 1) finds the state
\* WaitersPresent, so that the assertion of start_waiting holds; and no entry is
\* queued while the state is Unsignalled or SignalledNoWaiters.
C18_EnqueueOnlyInWaitersPresent ==
    /\ \A t \in Threads :
          (pc[t] = "w_done" /\ curval[t] # SignalledNoWaiters) => state = WaitersPresent
    /\ waiters # <<>> => state = WaitersPresent

\* The thread takes a step of its call.
Steps(t) == pc'[t] # pc[t] \/ curval'[t] # curval[t]

\* C19. A step that takes the state word into or out of WaitersPresent is a step of
\* a thread that holds the mutex (a slow-path step of wait or signal, or the step
\* in which a waiter returns from the condition-variable wait with the mutex
\* re-acquired); and a step of a lock-free path (the inline loops of signal, wait
\* and reset) changes the state only 0 -> 1 or 1 -> 0.
C19_WaitersPresentOnlyUnderMutex ==
    [][/\ (state' # state /\ (state = WaitersPresent \/ state' = WaitersPresent))
            => \E t \in Threads :
                 /\ Steps(t)
                 /\ \/ (mutex = t /\ pc[t] \in {"w_loop", "w_done", "s_loop"})
                    \/ (mutex = Unlocked /\ pc[t] = "w_reacq")
       /\ \A t \in Threads :
            (pc[t] \in {"w_fast", "s_fast", "r_loop"} /\ Steps(t))
            => \/ state' = state
               \/ (state = Unsignalled /\ state' = SignalledNoWaiters)
               \/ (state = SignalledNoWaiters /\ state' = Unsignalled)
      ]_vars

\* C19 witness: a wait has queued its entry (0 -> 2), timed out and left (2 -> 0),
\* no primitive failing, and a signal has set the flag on the inline path (0 -> 1).
C19_Witness ==
    /\ headInit
    /\ waiters = <<>>
    /\ state = SignalledNoWaiters
    /\ \E t \in Threads : Returned(t, "wait") /\ ret[t] = "false" /\ ~primFailed[t]
    /\ \E s \in Threads : Returned(s, "signal") /\ ret[s] = "AWS_OP_SUCCESS"

\* C20. On an auto-reset event the number of aws_event_wait calls that have
\* returned true never exceeds the number of aws_event_signal calls started, plus
\* one if the event was initialised signalled.
C20_SignalClaimedAtMostOnce ==
    autoreset => waitsTrue <= signalsStarted + (IF initSignalled THEN 1 ELSE 0)

\* C20 witness: on an auto-reset event initialised signalled one signal call has
\* been made and two waits have returned true, one of them woken from the queue.
C20_Witness ==
    /\ autoreset
    /\ initSignalled
    /\ signalsStarted = 1
    /\ waitsTrue = 2
    /\ \E t \in Threads : Returned(t, "wait") /\ ret[t] = "true" /\ awoken[t]

\* C21. A wait entry never outlives its call: an entry that is reachable from the
\* waiter list belongs to a wait call that is parked in, or returning from, its
\* condition-variable wait; in particular the entry of a call that has returned
\* (woken, timed out, or after a failed condition-variable initialisation) is not
\* in the list.
C21_EntryNeverOutlivesCall ==
    \A t \in Queued : op[t] = "wait" /\ pc[t] \in {"w_blocked", "w_reacq"}

\* C21 witness: one wait has timed out and unlinked its own entry, another was
\* unlinked by the signal that woke it, both have returned and the list is empty.
C21_Witness ==
    /\ waiters = <<>>
    /\ \E t \in Threads : Returned(t, "wait") /\ ret[t] = "false" /\ ~primFailed[t]
    /\ \E u \in Threads : Returned(u, "wait") /\ ret[u] = "true" /\ awoken[u]

\* C22. Wake-up order on an auto-reset event is FIFO: a signal call that wakes a
\* waiter while two or more entries are queued wakes the entry that was linked
\* first, so that of two queued waiters the one queued earlier is woken earlier.
C22_WakeOrderFifo ==
    [][\A s \in Threads :
          (autoreset /\ SignalWakes(s) /\ Len(arrivals) >= 2)
          => /\ awoken'[Head(arrivals)]
             /\ Head(arrivals) \notin Queued'
             /\ \A u \in Range(Tail(arrivals)) : u \in Queued' /\ awoken'[u] = awoken[u]
      ]_vars

\* C23. The event mutex is released on every return path: a thread that is not
\* inside a call does not hold the mutex.
C23_MutexReleasedOnReturn ==
    \A t \in Threads : pc[t] = "idle" => mutex # t

\* C24. The assertion of awaken_one holds: whenever the slow path of a signal call
\* on an auto-reset event has found the state WaitersPresent, the waiter list is
\* non-empty.
C24_AwakenOneFindsWaiter ==
    \A s \in Threads :
        (autoreset /\ op[s] = "signal" /\ pc[s] = "s_loop" /\ curval[s] = WaitersPresent)
        => waiters # <<>>

====
